---- MODULE Spec2Model ----
(***************************************************************************)
(* Warbler: the request handlers of app.py over the relational store       *)
(* (users, messages, follows, likes) and the browser sessions.             *)
(* One action per POST handler; every action starts with the               *)
(* before_request hook add_user_to_g and ends with the response.           *)
(***************************************************************************)
EXTENDS Integers, Sequences, FiniteSets, Bags, TLC

\* ---------------------------------------------------------------- bounds
MaxUsers == 2          \* user ids the users_id_seq hands out in a run
MaxMsgs == 2           \* message ids the messages_id_seq hands out in a run
MaxRequests == 3       \* like requests the workers take up in a run

\* ---------------------------------------------------------------- inputs
Sessions == {"s1", "s2"}                       \* browser sessions (cookies)
Usernames == {"one", "two"}
Emails == {"one@test.com", "two@test.com"}
WellFormedEmails == Emails
Passwords == {"password", "testuser"}
UsernameInputs == Usernames \cup {""}
EmailInputs == Emails \cup {"not-an-email"}
PasswordInputs == Passwords \cup {"short"}
\* The accounts of the workloads that are not about credentials: one address
\* and one password per username, and one form that does not validate.
Accounts ==
    {[username |-> "one", email |-> "one@test.com", password |-> "password"],
     [username |-> "two", email |-> "two@test.com", password |-> "password"],
     [username |-> "two", email |-> "two@test.com", password |-> "short"]}
ImageInputs == {"http://img.test/p.png"}
SignupImageInputs == {""} \cup ImageInputs
ExtraInputs ==
    {[image_url |-> "", header_image_url |-> "", location |-> "", bio |-> ""],
     [image_url |-> "http://img.test/p.png", header_image_url |-> "http://img.test/p.png",
      location |-> "Hanoi", bio |-> "hello"]}
TextInputs == {"", "Hello"}
UserIdInputs == 1..MaxUsers                    \* <int:follow_id>
MsgIdInputs == 1..MaxMsgs                      \* <int:message_id>
Workers == {"w1", "w2", "w3"}                  \* request workers
FeedSizes == {2, 100, 101, 220}                \* messages of a long-lived timeline

\* ---------------------------------------------------------------- constants
CURR_USER_KEY == "curr_user"
None == 0                                      \* Python None for ids (ids start at 1)
MinPasswordLen == 6
FEED_LIMIT == 100
DEFAULT_IMAGE == "/static/images/default-pic.png"
DEFAULT_HEADER == "/static/images/warbler-hero.jpg"

VARIABLES
    users,        \* users table: id -> row
    messages,     \* messages table: id -> row
    follows,      \* follows table: bag of <<user_following_id, user_being_followed_id>>
    likes,        \* likes table: bag of <<user_id, message_id>>
    nextUserId,   \* users_id_seq
    nextMsgId,    \* messages_id_seq
    session,      \* per browser: the signed cookie, a dict with at most CURR_USER_KEY
    resp,         \* the last request and its response
    inflight      \* like requests between their read and their commit, and
                  \* the toggles committed so far

vars == <<users, messages, follows, likes, nextUserId, nextMsgId, session, resp,
          inflight>>
db == <<users, messages, follows, likes, nextUserId, nextMsgId>>

EmptyDict == [k \in {} |-> None]
NoTable == [k \in {} |-> None]

\* ------------------------------------------------------------ responses
\* op: the handler; sess: the browser; user: g.user of the request; arg: the id
\* in the URL (the new row's id after a create); exc: the uncaught exception
\* behind a 500; feed: the ids of the messages handed to the home template;
\* likes_before: the likes table as the request found it.
Response(op, s, arg, status, flash, to, exc) ==
    [op |-> op, sess |-> s, user |-> None, arg |-> arg,
     status |-> status, flash |-> flash, to |-> to, exc |-> exc,
     feed |-> <<>>, likes_before |-> likes]

Redirect(op, s, arg, flash, to) == Response(op, s, arg, 302, flash, to, "")
Render(op, s, arg, flash, tmpl) == Response(op, s, arg, 200, flash, tmpl, "")
Abort(op, s, arg, code) == Response(op, s, arg, code, "", "", "")
Uncaught(op, s, arg, exc) == Response(op, s, arg, 500, "", "", exc)

Unauthorized(op, s, arg) == Redirect(op, s, arg, "Access unauthorized.", "/")

\* ------------------------------------------------------------ the store
\* User.query.get(id): the row's id, or None when no row has that id.
UserGet(id) == IF id \in DOMAIN users THEN id ELSE None
MessageGet(id) == IF id \in DOMAIN messages THEN id ELSE None

\* before_request: the current user of a request made in session s.
add_user_to_g_trusting(s) ==
    IF CURR_USER_KEY \in DOMAIN session[s]
    THEN session[s][CURR_USER_KEY]
    ELSE None
add_user_to_g(s) ==
    IF CURR_USER_KEY \in DOMAIN session[s]
    THEN UserGet(session[s][CURR_USER_KEY])
    ELSE None

do_login(s, id) == [session EXCEPT ![s] = [k \in {CURR_USER_KEY} |-> id]]
do_logout(s) ==
    IF CURR_USER_KEY \in DOMAIN session[s]
    THEN [session EXCEPT ![s] = EmptyDict]
    ELSE session

\* No request is being handled.
Idle == [pc |-> "idle", sess |-> "s1", g_user |-> None, message_id |-> None,
         user_likes |-> {}]
Settled == [reqs |-> [w \in Workers |-> Idle], started |-> 0, succeeded |-> EmptyBag]

Init ==
    /\ users = NoTable
    /\ messages = NoTable
    /\ follows = EmptyBag
    /\ likes = EmptyBag
    /\ nextUserId = 1
    /\ nextMsgId = 1
    /\ session = [s \in Sessions |-> EmptyDict]
    /\ resp = Response("start", "s1", None, 200, "", "", "")
    /\ inflight = Settled

\* ------------------------------------------------------------ forms.py
InputRequired(v) == v # ""
Email(v) == v \in WellFormedEmails
Length_min(v, n) == Len(v) >= n
OptionalURL(v) == v = "" \/ v \in ImageInputs

UserAddFormValid(un, em, pw, img) ==
    /\ InputRequired(un)
    /\ InputRequired(em) /\ Email(em)
    /\ InputRequired(pw) /\ Length_min(pw, MinPasswordLen)
    /\ OptionalURL(img)

LoginFormValid(un, pw) ==
    /\ InputRequired(un)
    /\ InputRequired(pw) /\ Length_min(pw, MinPasswordLen)

EditUserFormValid(un, em, img, hdr, pw) ==
    /\ InputRequired(un)
    /\ InputRequired(em) /\ Email(em)
    /\ OptionalURL(img) /\ OptionalURL(hdr)
    /\ InputRequired(pw) /\ Length_min(pw, MinPasswordLen)

MessageFormValid(text) == InputRequired(text)

\* ------------------------------------------------------------ models.py
\* bcrypt: a one-way hash of the raw password, and its verification.
generate_password_hash(pw) == <<"bcrypt", pw>>
check_password_hash(h, pw) == h = generate_password_hash(pw)

\* User.signup: the row of a new user.
User_signup(un, em, pw, img) ==
    [username |-> un, email |-> em, password |-> generate_password_hash(pw),
     image_url |-> img, header_image_url |-> DEFAULT_HEADER,
     bio |-> "", location |-> ""]

\* User.authenticate: the id of the user with that username whose stored hash
\* verifies the password, or None.
User_authenticate(un, pw) ==
    LET found == {i \in DOMAIN users : users[i].username = un}
    IN IF found = {} THEN None
       ELSE LET u == CHOOSE i \in found : \A j \in found : i <= j
            IN IF check_password_hash(users[u].password, pw) THEN u ELSE None

\* The users table's unique constraints on username and on email: a commit
\* that would leave table us raises IntegrityError when this is false.
UsersUnique_off(us) == TRUE
UsersUnique(us) ==
    \A i, j \in DOMAIN us :
        i # j => us[i].username # us[j].username /\ us[i].email # us[j].email

\* ------------------------------------------------------------ app.py
\* POST /signup
signup_login_first(s, un, em, pw, img) ==
    LET g_user == add_user_to_g(s)
        user == User_signup(un, em, pw, IF img # "" THEN img ELSE DEFAULT_IMAGE)
        us == [i \in DOMAIN users \cup {nextUserId} |->
                  IF i = nextUserId THEN user ELSE users[i]]
        r(x) == [x EXCEPT !.user = g_user]
    IN IF g_user # None
       THEN /\ resp' = r(Redirect("signup", s, None, "Already logged in.", "/"))
            /\ UNCHANGED <<db, session, inflight>>
       ELSE IF ~UserAddFormValid(un, em, pw, img)
       THEN /\ resp' = r(Render("signup", s, None, "", "users/signup.html"))
            /\ UNCHANGED <<db, session, inflight>>
       ELSE IF ~UsersUnique(us)
       THEN /\ resp' = r(Render("signup", s, None, "Username already taken.",
                                "users/signup.html"))
            /\ session' = do_login(s, nextUserId)
            /\ UNCHANGED <<db, inflight>>
       ELSE /\ nextUserId <= MaxUsers
            /\ users' = us
            /\ nextUserId' = nextUserId + 1
            /\ session' = do_login(s, nextUserId)
            /\ resp' = r(Redirect("signup", s, nextUserId, "", "/"))
            /\ UNCHANGED <<messages, follows, likes, nextMsgId, inflight>>

signup(s, un, em, pw, img) ==
    LET g_user == add_user_to_g(s)
        user == User_signup(un, em, pw, IF img # "" THEN img ELSE DEFAULT_IMAGE)
        us == [i \in DOMAIN users \cup {nextUserId} |->
                  IF i = nextUserId THEN user ELSE users[i]]
        r(x) == [x EXCEPT !.user = g_user]
    IN IF g_user # None
       THEN /\ resp' = r(Redirect("signup", s, None, "Already logged in.", "/"))
            /\ UNCHANGED <<db, session, inflight>>
       ELSE IF ~UserAddFormValid(un, em, pw, img)
       THEN /\ resp' = r(Render("signup", s, None, "", "users/signup.html"))
            /\ UNCHANGED <<db, session, inflight>>
       ELSE IF ~UsersUnique(us)
       THEN \* IntegrityError caught: the transaction is not committed
            /\ resp' = r(Render("signup", s, None, "Username already taken.",
                                "users/signup.html"))
            /\ UNCHANGED <<db, session, inflight>>
       ELSE /\ nextUserId <= MaxUsers
            /\ users' = us
            /\ nextUserId' = nextUserId + 1
            /\ session' = do_login(s, nextUserId)
            /\ resp' = r(Redirect("signup", s, nextUserId, "", "/"))
            /\ UNCHANGED <<messages, follows, likes, nextMsgId, inflight>>

\* POST /login
login_any_password(s, un, pw) ==
    LET g_user == add_user_to_g(s)
        found == {i \in DOMAIN users : users[i].username = un}
        user == IF found = {} THEN None ELSE CHOOSE i \in found : TRUE
        r(x) == [x EXCEPT !.user = g_user]
    IN IF g_user # None
       THEN /\ resp' = r(Redirect("login", s, None, "You are currently logged in.", "/"))
            /\ UNCHANGED <<db, session, inflight>>
       ELSE IF ~LoginFormValid(un, pw)
       THEN /\ resp' = r(Render("login", s, None, "", "users/login.html"))
            /\ UNCHANGED <<db, session, inflight>>
       ELSE IF user # None
       THEN /\ session' = do_login(s, user)
            /\ resp' = r(Redirect("login", s, user, "Welcome back!", "/"))
            /\ UNCHANGED <<db, inflight>>
       ELSE /\ resp' = r(Render("login", s, None, "Invalid credentials.",
                                "users/login.html"))
            /\ UNCHANGED <<db, session, inflight>>

login(s, un, pw) ==
    LET g_user == add_user_to_g(s)
        user == User_authenticate(un, pw)
        r(x) == [x EXCEPT !.user = g_user]
    IN IF g_user # None
       THEN /\ resp' = r(Redirect("login", s, None, "You are currently logged in.", "/"))
            /\ UNCHANGED <<db, session, inflight>>
       ELSE IF ~LoginFormValid(un, pw)
       THEN /\ resp' = r(Render("login", s, None, "", "users/login.html"))
            /\ UNCHANGED <<db, session, inflight>>
       ELSE IF user # None
       THEN /\ session' = do_login(s, user)
            /\ resp' = r(Redirect("login", s, user, "Welcome back!", "/"))
            /\ UNCHANGED <<db, inflight>>
       ELSE /\ resp' = r(Render("login", s, None, "Invalid credentials.",
                                "users/login.html"))
            /\ UNCHANGED <<db, session, inflight>>

\* GET /logout
logout(s) ==
    LET g_user == add_user_to_g(s)
        r(x) == [x EXCEPT !.user = g_user]
    IN IF g_user = None
       THEN /\ resp' = r(Redirect("logout", s, None,
                                  "You need to log in or sign up for an account.", "/"))
            /\ UNCHANGED <<db, session, inflight>>
       ELSE /\ session' = do_logout(s)
            /\ resp' = r(Redirect("logout", s, None,
                                  "You have successfully logged out.", "/login"))
            /\ UNCHANGED <<db, inflight>>

\* The follows table's primary key (user_being_followed_id, user_following_id)
\* and the likes table's uniqueness of (user_id, message_id): a commit that would
\* leave a pair twice in the table raises IntegrityError.
PairsUnique_off(table) == TRUE
PairsUnique(table) == \A e \in BagToSet(table) : CopiesIn(e, table) <= 1

\* A pair table cut down to the pairs of set kept.
Rows(table, kept) == [e \in BagToSet(table) \cap kept |-> CopiesIn(e, table)]

OneRow(e) == SetToBag({e})

\* user.is_following(other), user.is_followed_by(other), read from table rows.
is_following(rows, user, other) == BagIn(<<user, other>>, rows)
is_followed_by(rows, user, other) == BagIn(<<other, user>>, rows)

\* ON DELETE CASCADE from a message to its likes.
DeleteMessage(m) ==
    /\ messages' = [i \in DOMAIN messages \ {m} |-> messages[i]]
    /\ likes' = Rows(likes, {e \in BagToSet(likes) : e[2] # m})

\* ON DELETE CASCADE from a user to its messages, its follows (either side) and
\* its likes, and from the deleted messages to their likes.
DeleteUser_no_cascade(u) ==
    /\ users' = [i \in DOMAIN users \ {u} |-> users[i]]
    /\ UNCHANGED <<messages, follows, likes>>

DeleteUser(u) ==
    LET kept == {i \in DOMAIN messages : messages[i].user_id # u}
    IN /\ users' = [i \in DOMAIN users \ {u} |-> users[i]]
       /\ messages' = [i \in kept |-> messages[i]]
       /\ follows' = Rows(follows,
                       {e \in BagToSet(follows) : e[1] # u /\ e[2] # u})
       /\ likes' = Rows(likes,
                     {e \in BagToSet(likes) : e[1] # u /\ e[2] \in kept})

\* "if not g.user": the request has no current user.
not_g_user_off(g_user) == FALSE
not_g_user(g_user) == g_user = None

\* g.user.following.append(followed_user): the follows table with the new row.
following_append_reversed(g_user, followed_user) ==
    follows (+) OneRow(<<followed_user, g_user>>)
following_append(g_user, followed_user) ==
    follows (+) OneRow(<<g_user, followed_user>>)

\* "if g.user.id == follow_id"
is_self_off(g_user, follow_id) == FALSE
is_self(g_user, follow_id) == g_user = follow_id

\* POST /users/follow/<follow_id>
add_follow(s, follow_id) ==
    LET g_user == add_user_to_g(s)
        followed_user == UserGet(follow_id)
        appended == following_append(g_user, followed_user)
        r(x) == [x EXCEPT !.user = g_user]
    IN IF g_user = None
       THEN \* g.user.id is read before g.user is tested: AttributeError
            /\ resp' = r(Uncaught("add_follow", s, follow_id, "AttributeError"))
            /\ UNCHANGED <<db, session, inflight>>
       ELSE IF is_self(g_user, follow_id)
       THEN /\ resp' = r(Redirect("add_follow", s, follow_id,
                                  "You can't follow yourself!", "/"))
            /\ UNCHANGED <<db, session, inflight>>
       ELSE IF followed_user = None
       THEN /\ resp' = r(Abort("add_follow", s, follow_id, 404))
            /\ UNCHANGED <<db, session, inflight>>
       ELSE IF PairsUnique(appended)
       THEN /\ follows' = appended
            /\ resp' = r(Redirect("add_follow", s, follow_id, "", "/users/<id>/following"))
            /\ UNCHANGED <<users, messages, likes, nextUserId, nextMsgId, session, inflight>>
       ELSE \* already followed: the unit of work writes no row, or the
            \* insert is rejected by the primary key
            /\ \/ resp' = r(Redirect("add_follow", s, follow_id, "",
                                     "/users/<id>/following"))
               \/ resp' = r(Uncaught("add_follow", s, follow_id, "IntegrityError"))
            /\ UNCHANGED <<db, session, inflight>>

\* POST /users/stop-following/<follow_id>
stop_following_both_ways(s, follow_id) ==
    LET g_user == add_user_to_g(s)
        followed_user == UserGet(follow_id)
        r(x) == [x EXCEPT !.user = g_user]
    IN IF not_g_user(g_user)
       THEN /\ resp' = r(Unauthorized("stop_following", s, follow_id))
            /\ UNCHANGED <<db, session, inflight>>
       ELSE IF ~is_following(follows, g_user, followed_user)
       THEN /\ resp' = r(Uncaught("stop_following", s, follow_id, "ValueError"))
            /\ UNCHANGED <<db, session, inflight>>
       ELSE /\ follows' = Rows(follows, {e \in BagToSet(follows) :
                                            /\ e # <<g_user, followed_user>>
                                            /\ e # <<followed_user, g_user>>})
            /\ resp' = r(Redirect("stop_following", s, follow_id, "",
                                  "/users/<id>/following"))
            /\ UNCHANGED <<users, messages, likes, nextUserId, nextMsgId, session, inflight>>

stop_following(s, follow_id) ==
    LET g_user == add_user_to_g(s)
        followed_user == UserGet(follow_id)
        r(x) == [x EXCEPT !.user = g_user]
    IN IF not_g_user(g_user)
       THEN /\ resp' = r(Unauthorized("stop_following", s, follow_id))
            /\ UNCHANGED <<db, session, inflight>>
       ELSE IF ~is_following(follows, g_user, followed_user)
       THEN \* list.remove(x) with x not in the list: ValueError
            /\ resp' = r(Uncaught("stop_following", s, follow_id, "ValueError"))
            /\ UNCHANGED <<db, session, inflight>>
       ELSE /\ follows' = follows (-) OneRow(<<g_user, followed_user>>)
            /\ resp' = r(Redirect("stop_following", s, follow_id, "",
                                  "/users/<id>/following"))
            /\ UNCHANGED <<users, messages, likes, nextUserId, nextMsgId, session, inflight>>

\* "if liked_message.user_id == g.user.id"
own_message_off(g_user, liked_message) == FALSE
own_message(g_user, liked_message) == messages[liked_message].user_id = g_user

\* The likes table after g.user.likes is filtered (unlike) or appended to (like).
toggled_clear(g_user, liked_message) ==
    IF BagIn(<<g_user, liked_message>>, likes)
    THEN Rows(likes, {e \in BagToSet(likes) : e[1] # g_user})
    ELSE likes (+) OneRow(<<g_user, liked_message>>)
toggled(g_user, liked_message) ==
    IF BagIn(<<g_user, liked_message>>, likes)
    THEN Rows(likes, {e \in BagToSet(likes) : e # <<g_user, liked_message>>})
    ELSE likes (+) OneRow(<<g_user, liked_message>>)

\* POST /messages/<message_id>/like
add_like_append_only(s, message_id) ==
    LET g_user == add_user_to_g(s)
        liked_message == MessageGet(message_id)
        r(x) == [x EXCEPT !.user = g_user]
    IN IF not_g_user(g_user)
       THEN /\ resp' = r(Unauthorized("add_like", s, message_id))
            /\ UNCHANGED <<db, session, inflight>>
       ELSE IF liked_message = None
       THEN /\ resp' = r(Abort("add_like", s, message_id, 404))
            /\ UNCHANGED <<db, session, inflight>>
       ELSE IF own_message(g_user, liked_message)
       THEN /\ resp' = r(Abort("add_like", s, message_id, 403))
            /\ UNCHANGED <<db, session, inflight>>
       ELSE /\ likes' = IF BagIn(<<g_user, liked_message>>, likes)
                        THEN likes
                        ELSE likes (+) OneRow(<<g_user, liked_message>>)
            /\ resp' = r(Redirect("add_like", s, message_id, "", "/"))
            /\ UNCHANGED <<users, messages, follows, nextUserId, nextMsgId, session,
                           inflight>>

add_like(s, message_id) ==
    LET g_user == add_user_to_g(s)
        liked_message == MessageGet(message_id)
        r(x) == [x EXCEPT !.user = g_user]
    IN IF not_g_user(g_user)
       THEN /\ resp' = r(Unauthorized("add_like", s, message_id))
            /\ UNCHANGED <<db, session, inflight>>
       ELSE IF liked_message = None
       THEN /\ resp' = r(Abort("add_like", s, message_id, 404))
            /\ UNCHANGED <<db, session, inflight>>
       ELSE IF own_message(g_user, liked_message)
       THEN /\ resp' = r(Abort("add_like", s, message_id, 403))
            /\ UNCHANGED <<db, session, inflight>>
       ELSE /\ likes' = toggled(g_user, liked_message)
            /\ resp' = r(Redirect("add_like", s, message_id, "", "/"))
            /\ UNCHANGED <<users, messages, follows, nextUserId, nextMsgId, session, inflight>>

\* The same handler as two steps of a worker w: the reads up to
\* 'user_likes = g.user.likes', then the write and db.session.commit().
like_read(w, s, message_id) ==
    LET g_user == add_user_to_g(s)
        liked_message == MessageGet(message_id)
        r(x) == [x EXCEPT !.user = g_user]
        done == [inflight EXCEPT !.started = @ + 1]
    IN /\ inflight.reqs[w].pc = "idle"
       /\ inflight.started < MaxRequests
       /\ IF not_g_user(g_user)
          THEN /\ resp' = r(Unauthorized("add_like", s, message_id))
               /\ inflight' = done
          ELSE IF liked_message = None
          THEN /\ resp' = r(Abort("add_like", s, message_id, 404))
               /\ inflight' = done
          ELSE IF own_message(g_user, liked_message)
          THEN /\ resp' = r(Abort("add_like", s, message_id, 403))
               /\ inflight' = done
          ELSE /\ inflight' = [done EXCEPT !.reqs[w] =
                                  [pc |-> "read", sess |-> s, g_user |-> g_user,
                                   message_id |-> message_id,
                                   user_likes |-> {e[2] : e \in {x \in BagToSet(likes) :
                                                                    x[1] = g_user}}]]
               /\ UNCHANGED resp
       /\ UNCHANGED <<db, session>>

like_commit(w) ==
    LET req == inflight.reqs[w]
        pair == <<req.g_user, req.message_id>>
        appended == likes (+) OneRow(pair)
        r(x) == [x EXCEPT !.user = req.g_user]
        ok == r(Redirect("add_like", req.sess, req.message_id, "", "/"))
        failed(exc) == r(Uncaught("add_like", req.sess, req.message_id, exc))
        over == [inflight EXCEPT !.reqs[w] = Idle]
        toggled_once == [over EXCEPT !.succeeded = @ (+) OneRow(pair)]
    IN /\ req.pc = "read"
       /\ IF req.message_id \in req.user_likes
          THEN \* DELETE of the row that was read
               IF BagIn(pair, likes)
               THEN /\ likes' = Rows(likes, {e \in BagToSet(likes) : e # pair})
                    /\ resp' = ok
                    /\ inflight' = toggled_once
               ELSE \* the row is gone meanwhile: the DELETE matches nothing,
                    \* which the unit of work lets pass or reports
                    /\ UNCHANGED likes
                    /\ \/ resp' = ok /\ inflight' = toggled_once
                       \/ resp' = failed("StaleDataError") /\ inflight' = over
          ELSE \* INSERT of the pair
               IF PairsUnique(appended)
               THEN /\ likes' = appended
                    /\ resp' = ok
                    /\ inflight' = toggled_once
               ELSE /\ UNCHANGED likes
                    /\ resp' = failed("IntegrityError")
                    /\ inflight' = over
       /\ UNCHANGED <<users, messages, follows, nextUserId, nextMsgId, session>>

\* POST /users/profile
profile_no_reauth(s, un, em, extra, pw) ==
    LET g_user == add_user_to_g(s)
        edited == [users[g_user] EXCEPT
                      !.username = un,
                      !.email = em,
                      !.image_url = IF extra.image_url # "" THEN extra.image_url
                                    ELSE DEFAULT_IMAGE,
                      !.header_image_url = IF extra.header_image_url # ""
                                           THEN extra.header_image_url
                                           ELSE DEFAULT_HEADER,
                      !.location = extra.location,
                      !.bio = extra.bio]
        us == [users EXCEPT ![g_user] = edited]
        r(x) == [x EXCEPT !.user = g_user]
    IN IF not_g_user(g_user)
       THEN /\ resp' = r(Unauthorized("profile", s, None))
            /\ UNCHANGED <<db, session, inflight>>
       ELSE IF ~EditUserFormValid(un, em, extra.image_url, extra.header_image_url, pw)
       THEN /\ resp' = r(Render("profile", s, g_user, "", "users/edit.html"))
            /\ UNCHANGED <<db, session, inflight>>
       ELSE IF ~UsersUnique(us)
       THEN /\ resp' = r(Uncaught("profile", s, g_user, "IntegrityError"))
            /\ UNCHANGED <<db, session, inflight>>
       ELSE /\ users' = us
            /\ resp' = r(Redirect("profile", s, g_user,
                                  "User profile successfully updated.", "/users/<id>"))
            /\ UNCHANGED <<messages, follows, likes, nextUserId, nextMsgId, session, inflight>>

profile(s, un, em, extra, pw) ==
    LET g_user == add_user_to_g(s)
        edited == [users[g_user] EXCEPT
                      !.username = un,
                      !.email = em,
                      !.image_url = IF extra.image_url # "" THEN extra.image_url
                                    ELSE DEFAULT_IMAGE,
                      !.header_image_url = IF extra.header_image_url # ""
                                           THEN extra.header_image_url
                                           ELSE DEFAULT_HEADER,
                      !.location = extra.location,
                      !.bio = extra.bio]
        us == [users EXCEPT ![g_user] = edited]
        r(x) == [x EXCEPT !.user = g_user]
    IN IF not_g_user(g_user)
       THEN /\ resp' = r(Unauthorized("profile", s, None))
            /\ UNCHANGED <<db, session, inflight>>
       ELSE IF ~EditUserFormValid(un, em, extra.image_url, extra.header_image_url, pw)
       THEN /\ resp' = r(Render("profile", s, g_user, "", "users/edit.html"))
            /\ UNCHANGED <<db, session, inflight>>
       ELSE IF User_authenticate(users[g_user].username, pw) = None
       THEN /\ resp' = r(Render("profile", s, g_user,
                                "Wrong password, please try again.", "users/edit.html"))
            /\ UNCHANGED <<db, session, inflight>>
       ELSE IF ~UsersUnique(us)
       THEN \* IntegrityError is not caught: the transaction is rolled back
            /\ resp' = r(Uncaught("profile", s, g_user, "IntegrityError"))
            /\ UNCHANGED <<db, session, inflight>>
       ELSE /\ users' = us
            /\ resp' = r(Redirect("profile", s, g_user,
                                  "User profile successfully updated.", "/users/<id>"))
            /\ UNCHANGED <<messages, follows, likes, nextUserId, nextMsgId, session, inflight>>

\* POST /users/delete
delete_user_logout_only(s) ==
    LET g_user == add_user_to_g(s)
        r(x) == [x EXCEPT !.user = g_user]
    IN IF not_g_user(g_user)
       THEN /\ resp' = r(Unauthorized("delete_user", s, None))
            /\ UNCHANGED <<db, session, inflight>>
       ELSE /\ session' = do_logout(s)
            /\ resp' = r(Redirect("delete_user", s, g_user, "User has been deleted.",
                                  "/signup"))
            /\ UNCHANGED <<db, inflight>>

delete_user(s) ==
    LET g_user == add_user_to_g(s)
        r(x) == [x EXCEPT !.user = g_user]
    IN IF not_g_user(g_user)
       THEN /\ resp' = r(Unauthorized("delete_user", s, None))
            /\ UNCHANGED <<db, session, inflight>>
       ELSE /\ session' = do_logout(s)
            /\ DeleteUser(g_user)
            /\ resp' = r(Redirect("delete_user", s, g_user, "User has been deleted.",
                                  "/signup"))
            /\ UNCHANGED <<nextUserId, nextMsgId, inflight>>

\* POST /messages/new
messages_add(s, text) ==
    LET g_user == add_user_to_g(s)
        msg == [text |-> text, timestamp |-> nextMsgId, user_id |-> g_user]
        r(x) == [x EXCEPT !.user = g_user]
    IN IF not_g_user(g_user)
       THEN /\ resp' = r(Unauthorized("messages_add", s, None))
            /\ UNCHANGED <<db, session, inflight>>
       ELSE IF ~MessageFormValid(text)
       THEN /\ resp' = r(Render("messages_add", s, None, "", "messages/new.html"))
            /\ UNCHANGED <<db, session, inflight>>
       ELSE /\ nextMsgId <= MaxMsgs
            /\ messages' = [i \in DOMAIN messages \cup {nextMsgId} |->
                               IF i = nextMsgId THEN msg ELSE messages[i]]
            /\ nextMsgId' = nextMsgId + 1
            /\ resp' = r(Redirect("messages_add", s, nextMsgId, "", "/users/<id>"))
            /\ UNCHANGED <<users, follows, likes, nextUserId, session, inflight>>

\* "if msg.user_id != g.user.id"
not_owner_off(g_user, msg) == FALSE
not_owner(g_user, msg) == messages[msg].user_id # g_user

\* POST /messages/<message_id>/delete
messages_destroy(s, message_id) ==
    LET g_user == add_user_to_g(s)
        msg == MessageGet(message_id)
        r(x) == [x EXCEPT !.user = g_user]
    IN IF not_g_user(g_user)
       THEN /\ resp' = r(Unauthorized("messages_destroy", s, message_id))
            /\ UNCHANGED <<db, session, inflight>>
       ELSE IF msg = None
       THEN /\ resp' = r(Abort("messages_destroy", s, message_id, 404))
            /\ UNCHANGED <<db, session, inflight>>
       ELSE IF not_owner(g_user, msg)
       THEN /\ resp' = r(Unauthorized("messages_destroy", s, message_id))
            /\ UNCHANGED <<db, session, inflight>>
       ELSE /\ DeleteMessage(msg)
            /\ resp' = r(Redirect("messages_destroy", s, message_id, "", "/users/<id>"))
            /\ UNCHANGED <<users, follows, nextUserId, nextMsgId, session, inflight>>

\* ORDER BY timestamp DESC, as a merge sort over the row ids lo..hi.
RECURSIVE merge_desc(_, _)
merge_desc(a, b) ==
    IF a = <<>> THEN b
    ELSE IF b = <<>> THEN a
    ELSE IF messages[a[Len(a)]].timestamp >= messages[Head(b)].timestamp THEN a \o b
    ELSE IF messages[b[Len(b)]].timestamp >= messages[Head(a)].timestamp THEN b \o a
    ELSE IF messages[Head(a)].timestamp >= messages[Head(b)].timestamp
         THEN <<Head(a)>> \o merge_desc(Tail(a), b)
         ELSE <<Head(b)>> \o merge_desc(a, Tail(b))

RECURSIVE order_between(_, _, _)
order_between(lo, hi, ids) ==
    IF lo > hi THEN <<>>
    ELSE IF lo = hi THEN (IF lo \in ids THEN <<lo>> ELSE <<>>)
    ELSE LET mid == (lo + hi) \div 2
         IN merge_desc(order_between(lo, mid, ids), order_between(mid + 1, hi, ids))

order_by_timestamp_desc(ids) == order_between(1, nextMsgId - 1, ids)

\* .limit(n)
limit(rows, n) == SubSeq(rows, 1, IF Len(rows) < n THEN Len(rows) ELSE n)

\* The ids of the users g.user follows, and g.user's own.
following_ids_followers(g_user) ==
    {e[1] : e \in {x \in BagToSet(follows) : x[2] = g_user}} \cup {g_user}
following_ids(g_user) ==
    {e[2] : e \in {x \in BagToSet(follows) : x[1] = g_user}} \cup {g_user}

\* The query of the home page.
home_messages(g_user) ==
    limit(order_by_timestamp_desc(
              {m \in DOMAIN messages : messages[m].user_id \in following_ids(g_user)}),
          FEED_LIMIT)

\* GET /
homepage(s) ==
    LET g_user == add_user_to_g(s)
        r(x) == [x EXCEPT !.user = g_user]
    IN /\ IF g_user # None
          THEN resp' = [r(Render("homepage", s, None, "", "home.html"))
                           EXCEPT !.feed = home_messages(g_user)]
          ELSE resp' = r(Render("homepage", s, None, "", "home-anon.html"))
       /\ UNCHANGED <<db, session, inflight>>

\* ------------------------------------------------------------ the system
\* Every handler, from every browser, with every input.
Next ==
    \/ \E s \in Sessions, un \in UsernameInputs, em \in EmailInputs,
          pw \in PasswordInputs, img \in SignupImageInputs : signup(s, un, em, pw, img)
    \/ \E s \in Sessions, un \in UsernameInputs, pw \in PasswordInputs : login(s, un, pw)
    \/ \E s \in Sessions : logout(s)
    \/ \E s \in Sessions, id \in UserIdInputs : add_follow(s, id)
    \/ \E s \in Sessions, id \in UserIdInputs : stop_following(s, id)
    \/ \E s \in Sessions, id \in MsgIdInputs : add_like(s, id)
    \/ \E s \in Sessions, un \in UsernameInputs, em \in EmailInputs,
          extra \in ExtraInputs, pw \in PasswordInputs : profile(s, un, em, extra, pw)
    \/ \E s \in Sessions : delete_user(s)
    \/ \E s \in Sessions, text \in TextInputs : messages_add(s, text)
    \/ \E s \in Sessions, id \in MsgIdInputs : messages_destroy(s, id)
    \/ \E s \in Sessions : homepage(s)

Spec == Init /\ [][Next]_vars

\* Workloads: the handlers that write the tables a property reads, with the
\* accounts fixed where the property is not about credentials.
Account(s) ==
    \/ \E a \in Accounts : signup(s, a.username, a.email, a.password, "")
    \/ \E un \in Usernames, pw \in Passwords : login(s, un, pw)
    \/ logout(s)
    \/ delete_user(s)

\* One browser; messages, likes and follows.
NextEngage ==
    \/ Account("s1")
    \/ \E id \in UserIdInputs : add_follow("s1", id)
    \/ \E id \in UserIdInputs : stop_following("s1", id)
    \/ \E id \in MsgIdInputs : add_like("s1", id)
    \/ \E text \in TextInputs : messages_add("s1", text)
    \/ \E id \in MsgIdInputs : messages_destroy("s1", id)

SpecEngage == Init /\ [][NextEngage]_vars

\* Two browsers; accounts and messages.
NextSession ==
    \/ \E s \in Sessions : Account(s)
    \/ \E s \in Sessions, text \in TextInputs : messages_add(s, text)
    \/ \E s \in Sessions, id \in MsgIdInputs : messages_destroy(s, id)

SpecSession == Init /\ [][NextSession]_vars

\* Two browsers; accounts and follows.
NextSocial ==
    \/ \E s \in Sessions : Account(s)
    \/ \E s \in Sessions, id \in UserIdInputs : add_follow(s, id)
    \/ \E s \in Sessions, id \in UserIdInputs : stop_following(s, id)

SpecSocial == Init /\ [][NextSocial]_vars

\* Two browsers; accounts with every credential input, and profile edits.
NextIdentity ==
    \/ \E s \in Sessions, un \in UsernameInputs, em \in EmailInputs,
          pw \in PasswordInputs, img \in SignupImageInputs : signup(s, un, em, pw, img)
    \/ \E s \in Sessions, un \in UsernameInputs, pw \in PasswordInputs : login(s, un, pw)
    \/ \E s \in Sessions : logout(s)
    \/ \E s \in Sessions, un \in UsernameInputs, em \in EmailInputs,
          extra \in ExtraInputs, pw \in PasswordInputs : profile(s, un, em, extra, pw)
    \/ \E s \in Sessions : delete_user(s)

SpecIdentity == Init /\ [][NextIdentity]_vars

\* One browser; accounts with every credential input, and profile edits.
NextCredentials ==
    \/ \E un \in UsernameInputs, em \in EmailInputs, pw \in PasswordInputs,
          img \in SignupImageInputs : signup("s1", un, em, pw, img)
    \/ \E un \in UsernameInputs, pw \in PasswordInputs : login("s1", un, pw)
    \/ logout("s1")
    \/ \E un \in UsernameInputs, em \in EmailInputs, extra \in ExtraInputs,
          pw \in PasswordInputs : profile("s1", un, em, extra, pw)
    \/ delete_user("s1")

SpecCredentials == Init /\ [][NextCredentials]_vars

\* Reading the home page of a long-lived site: two accounts exist, and between
\* them they have posted n messages, the odd-numbered ones by a and the
\* even-numbered ones by b, each stamped at its creation.
InitFeed ==
    /\ users = (1 :> User_signup("one", "one@test.com", "password", DEFAULT_IMAGE))
                @@ (2 :> User_signup("two", "two@test.com", "password", DEFAULT_IMAGE))
    /\ \E n \in FeedSizes, a \in 1..2, b \in 1..2 :
          /\ messages = [i \in 1..n |-> [text |-> "Hello", timestamp |-> i,
                                         user_id |-> IF i % 2 = 1 THEN a ELSE b]]
          /\ nextMsgId = n + 1
    /\ follows = EmptyBag
    /\ likes = EmptyBag
    /\ nextUserId = 3
    /\ session = [s \in Sessions |-> EmptyDict]
    /\ resp = Response("start", "s1", None, 200, "", "", "")
    /\ inflight = Settled

NextFeed ==
    \/ \E un \in Usernames, pw \in Passwords : login("s1", un, pw)
    \/ logout("s1")
    \/ \E id \in UserIdInputs : add_follow("s1", id)
    \/ \E id \in UserIdInputs : stop_following("s1", id)
    \/ homepage("s1")

SpecFeed == InitFeed /\ [][NextFeed]_vars

\* One browser through the life of a timeline: accounts come and go, post,
\* follow and read their home page.
NextTimeline ==
    \/ Account("s1")
    \/ \E text \in TextInputs : messages_add("s1", text)
    \/ \E id \in UserIdInputs : add_follow("s1", id)
    \/ homepage("s1")

SpecTimeline == Init /\ [][NextTimeline]_vars

\* One browser through every gated operation, between logins and logouts.
NextLifecycle ==
    \/ Account("s1")
    \/ \E id \in UserIdInputs : add_follow("s1", id)
    \/ \E id \in UserIdInputs : stop_following("s1", id)
    \/ \E id \in MsgIdInputs : add_like("s1", id)
    \/ \E text \in TextInputs : messages_add("s1", text)
    \/ \E id \in MsgIdInputs : messages_destroy("s1", id)
    \/ \E a \in Accounts, extra \in {e \in ExtraInputs : e.bio = ""} :
          profile("s1", a.username, a.email, extra, a.password)

SpecLifecycle == Init /\ [][NextLifecycle]_vars

\* Like requests served by concurrent workers: account 1 has posted message 1,
\* browser "s1" is logged in as account 2 and browser "s2" as account 1.
InitRace ==
    /\ users = (1 :> User_signup("one", "one@test.com", "password", DEFAULT_IMAGE))
                @@ (2 :> User_signup("two", "two@test.com", "password", DEFAULT_IMAGE))
    /\ messages = (1 :> [text |-> "Hello", timestamp |-> 1, user_id |-> 1])
    /\ follows = EmptyBag
    /\ likes = EmptyBag
    /\ nextUserId = 3
    /\ nextMsgId = 2
    /\ session = [s \in Sessions |->
                     [k \in {CURR_USER_KEY} |-> IF s = "s1" THEN 2 ELSE 1]]
    /\ resp = Response("start", "s1", None, 200, "", "", "")
    /\ inflight = Settled

NextRace ==
    \/ \E w \in Workers, s \in Sessions, id \in MsgIdInputs : like_read(w, s, id)
    \/ \E w \in Workers : like_commit(w)

SpecRace == InitRace /\ [][NextRace]_vars

\* ------------------------------------------------------------ properties
\* The request of a step: the handler that ran, its current user and its id.
Ran(op) == resp'.op = op
LoggedIn == resp'.user # None
Anonymous == resp'.user = None /\ CURR_USER_KEY \notin DOMAIN session[resp'.sess]
UnauthorizedRedirect(r) ==
    r.status = 302 /\ r.flash = "Access unauthorized." /\ r.to = "/" /\ r.exc = ""

\* C1: a like toggle by a logged-in user u on an existing message m that u does
\* not own changes the likes table by exactly the row (u, m): present before,
\* absent after; absent before, present once after; every other row as before.
C1_ToggleChangesOneEdge ==
    [][(/\ Ran("add_like") /\ LoggedIn
        /\ resp'.arg \in DOMAIN messages
        /\ messages[resp'.arg].user_id # resp'.user)
       => LET e == <<resp'.user, resp'.arg>>
          IN /\ BagIn(e, likes) => ~BagIn(e, likes')
             /\ ~BagIn(e, likes) => CopiesIn(e, likes') = 1
             /\ \A x \in (BagToSet(likes) \cup BagToSet(likes')) \ {e} :
                    CopiesIn(x, likes') = CopiesIn(x, likes)]_vars

\* An unlike has just removed (u, m) while u's like of another message stays.
C1_Witness ==
    /\ resp.op = "add_like" /\ resp.status = 302 /\ resp.user # None
    /\ ~BagIn(<<resp.user, resp.arg>>, likes)
    /\ \E e \in BagToSet(likes) : e[1] = resp.user /\ e[2] # resp.arg

\* C2: a like toggle by the owner of the message answers 403 and leaves the
\* likes table as it was, and no state holds a like of a message by its owner.
NoSelfLike ==
    \A e \in BagToSet(likes) :
        e[2] \in DOMAIN messages => messages[e[2]].user_id # e[1]

C2_SelfLikeForbidden ==
    /\ []NoSelfLike
    /\ [][(/\ Ran("add_like") /\ LoggedIn
           /\ resp'.arg \in DOMAIN messages
           /\ messages[resp'.arg].user_id = resp'.user)
          => resp'.status = 403 /\ likes' = likes]_vars

\* The owner of a message that somebody else likes has just tried to like it.
C2_Witness ==
    /\ resp.op = "add_like" /\ resp.status = 403 /\ resp.user # None
    /\ resp.arg \in DOMAIN messages
    /\ messages[resp.arg].user_id = resp.user
    /\ \E e \in BagToSet(likes) : e[2] = resp.arg

\* C3: a delete of an existing message by a logged-in requester removes the
\* message when the requester owns it; for any other logged-in requester the
\* answer is the unauthorized redirect and the messages table is as before;
\* and a message leaves the table through this handler only at its owner's request.
C3_DeleteOnlyByOwner ==
    [][/\ (/\ Ran("messages_destroy") /\ LoggedIn
           /\ resp'.arg \in DOMAIN messages)
          => IF messages[resp'.arg].user_id = resp'.user
             THEN resp'.arg \notin DOMAIN messages'
             ELSE /\ UnauthorizedRedirect(resp')
                  /\ resp'.arg \in DOMAIN messages'
                  /\ messages' = messages
       /\ Ran("messages_destroy")
          => \A m \in DOMAIN messages \ DOMAIN messages' :
                 m = resp'.arg /\ messages[m].user_id = resp'.user]_vars

\* A logged-in user has just been refused the delete of somebody else's message.
C3_Witness ==
    /\ resp.op = "messages_destroy" /\ resp.user # None
    /\ UnauthorizedRedirect(resp)
    /\ resp.arg \in DOMAIN messages
    /\ messages[resp.arg].user_id # resp.user

\* C4: with no current user in the session, create message, delete message and
\* toggle like answer with the unauthorized redirect to the home page and leave
\* users, messages, follows and likes as they were.
C4_AnonymousRefused ==
    [][(/\ Ran("messages_add") \/ Ran("messages_destroy") \/ Ran("add_like")
        /\ Anonymous)
       => /\ UnauthorizedRedirect(resp')
          /\ UNCHANGED <<users, messages, follows, likes>>]_vars

\* An anonymous browser has just been refused the delete of an existing message,
\* in a store that holds likes and follows.
C4_Witness ==
    /\ resp.op = "messages_destroy" /\ resp.user = None
    /\ CURR_USER_KEY \notin DOMAIN session[resp.sess]
    /\ UnauthorizedRedirect(resp)
    /\ resp.arg \in DOMAIN messages
    /\ likes # EmptyBag /\ follows # EmptyBag

\* C5: a create-message request from a session whose marker names no user in
\* the store resolves to no current user and is refused with the unauthorized
\* redirect; no message is created.
C5_StaleMarkerIsAnonymous ==
    [][(/\ Ran("messages_add")
        /\ CURR_USER_KEY \in DOMAIN session[resp'.sess]
        /\ session[resp'.sess][CURR_USER_KEY] \notin DOMAIN users)
       => /\ resp'.user = None
          /\ UnauthorizedRedirect(resp')
          /\ messages' = messages /\ nextMsgId' = nextMsgId]_vars

\* A browser still holding the id of a deleted account has just been refused.
C5_Witness ==
    /\ resp.op = "messages_add" /\ UnauthorizedRedirect(resp)
    /\ CURR_USER_KEY \in DOMAIN session[resp.sess]
    /\ session[resp.sess][CURR_USER_KEY] \notin DOMAIN users
    /\ users # NoTable

\* C6: a follow of oneself by a logged-in user is answered with the "can't
\* follow yourself" redirect and writes no row, and no state holds a follows
\* row from a user to that same user.
NoSelfFollow == \A e \in BagToSet(follows) : e[1] # e[2]

C6_SelfFollowRejected ==
    /\ []NoSelfFollow
    /\ [][(Ran("add_follow") /\ LoggedIn /\ resp'.arg = resp'.user)
          => /\ follows' = follows
             /\ resp'.status = 302 /\ resp'.flash = "You can't follow yourself!"]_vars

\* A logged-in user who follows somebody has just tried to follow themselves.
C6_Witness ==
    /\ resp.op = "add_follow" /\ resp.user # None /\ resp.arg = resp.user
    /\ \E e \in BagToSet(follows) : e[1] = resp.user

\* C7: a follow of an existing user b by a logged-in user a, distinct from b and
\* with no follows row between the two in either direction, leaves a following
\* b and b not following a.
C7_FollowIsDirected ==
    [][(/\ Ran("add_follow") /\ LoggedIn
        /\ resp'.arg \in DOMAIN users /\ resp'.arg # resp'.user
        /\ ~is_following(follows, resp'.user, resp'.arg)
        /\ ~is_following(follows, resp'.arg, resp'.user))
       => /\ is_following(follows', resp'.user, resp'.arg)
          /\ ~is_following(follows', resp'.arg, resp'.user)
          /\ is_followed_by(follows', resp'.arg, resp'.user)]_vars

\* a has just followed b, the only row of the table.
C7_Witness ==
    /\ resp.op = "add_follow" /\ resp.status = 302 /\ resp.user # None
    /\ resp.arg \in DOMAIN users /\ resp.arg # resp.user
    /\ follows = OneRow(<<resp.user, resp.arg>>)

\* C8: an unfollow by a logged-in user removes the row when the user follows
\* the target, and otherwise (target not followed, or no such user) completes
\* without an error and leaves the follows table as it was.
C8_UnfollowMissingIsNoOp ==
    [][(Ran("stop_following") /\ LoggedIn)
       => IF is_following(follows, resp'.user, resp'.arg)
          THEN ~is_following(follows', resp'.user, resp'.arg)
          ELSE resp'.status # 500 /\ resp'.exc = "" /\ follows' = follows]_vars

\* C9: no state holds a (follower, followed) pair twice, and a follow of a user
\* already followed leaves the follows table as it was, with the one row.
C9_FollowsUnique ==
    /\ [](\A e \in BagToSet(follows) : CopiesIn(e, follows) = 1)
    /\ [][(Ran("add_follow") /\ LoggedIn /\ is_following(follows, resp'.user, resp'.arg))
          => follows' = follows]_vars

\* A second follow of the same user has just been rejected by the primary key.
C9_Witness ==
    /\ resp.op = "add_follow" /\ resp.exc = "IntegrityError"
    /\ CopiesIn(<<resp.user, resp.arg>>, follows) = 1

\* C10: no two users of the store share a username, and no two share an email.
C10_CredentialsUnique ==
    \A i, j \in DOMAIN users :
        i # j => /\ users[i].username # users[j].username
                 /\ users[i].email # users[j].email

\* A profile edit that took another user's username or email has just failed.
C10_Witness ==
    /\ resp.op = "profile" /\ resp.exc = "IntegrityError"
    /\ Cardinality(DOMAIN users) = 2

\* C11: a signup with the username or the email of an existing user adds no
\* user, changes no user and leaves the session as it was; made with no current
\* user and a form that validates, it is answered with the signup form and the
\* "already taken" error.
Taken(un, em) ==
    \E i \in DOMAIN users : users[i].username = un \/ users[i].email = em

C11_DuplicateSignupFails ==
    [][Ran("signup")
       => \A un \in UsernameInputs, em \in EmailInputs,
             pw \in PasswordInputs, img \in SignupImageInputs :
              (Taken(un, em) /\ signup(resp'.sess, un, em, pw, img))
              => /\ users' = users /\ nextUserId' = nextUserId
                 /\ session' = session
                 /\ (resp'.user = None /\ UserAddFormValid(un, em, pw, img))
                    => /\ resp'.status = 200
                       /\ resp'.to = "users/signup.html"
                       /\ resp'.flash = "Username already taken."]_vars

\* An anonymous browser has just been shown the signup form with the error.
C11_Witness ==
    /\ resp.op = "signup" /\ resp.flash = "Username already taken."
    /\ resp.to = "users/signup.html"
    /\ CURR_USER_KEY \notin DOMAIN session[resp.sess]
    /\ users # NoTable

\* C12: a login made with no current user sets the session's marker to u
\* exactly when u is the user with the typed username and the typed password
\* verifies against u's stored hash; with a wrong password or an unknown
\* username the request ends without an error and the session is as it was.
Matching(un, pw) ==
    {u \in DOMAIN users :
        users[u].username = un /\ check_password_hash(users[u].password, pw)}

C12_LoginSetsMarkerOnMatch ==
    [][Ran("login")
       => \A un \in UsernameInputs, pw \in PasswordInputs :
              (login(resp'.sess, un, pw) /\ resp'.user = None)
              => IF Matching(un, pw) # {}
                 THEN /\ CURR_USER_KEY \in DOMAIN session'[resp'.sess]
                      /\ session'[resp'.sess][CURR_USER_KEY] \in Matching(un, pw)
                      /\ Cardinality(Matching(un, pw)) = 1
                 ELSE /\ session' = session
                      /\ resp'.status = 200 /\ resp'.exc = ""]_vars

\* With two accounts in the store, a browser has just logged in as one of them.
C12_Witness ==
    /\ resp.op = "login" /\ resp.status = 302 /\ resp.user = None
    /\ Cardinality(DOMAIN users) = 2
    /\ CURR_USER_KEY \in DOMAIN session[resp.sess]
    /\ session[resp.sess][CURR_USER_KEY] = resp.arg

\* C13: a profile edit by a logged-in user either writes all six submitted
\* fields of that user (a blank image URL as the placeholder) and nothing else,
\* or leaves the users table as it was; it writes when the form validates, the
\* typed password authenticates the current user and the new username and email
\* are no other user's, and in no other case.
Submitted(row, un, em, extra) ==
    /\ row.username = un /\ row.email = em
    /\ row.image_url = (IF extra.image_url = "" THEN DEFAULT_IMAGE
                        ELSE extra.image_url)
    /\ row.header_image_url = (IF extra.header_image_url = "" THEN DEFAULT_HEADER
                               ELSE extra.header_image_url)
    /\ row.location = extra.location /\ row.bio = extra.bio

C13_ProfileEditAllOrNothing ==
    [][(Ran("profile") /\ LoggedIn)
       => \A un \in UsernameInputs, em \in EmailInputs, extra \in ExtraInputs,
             pw \in PasswordInputs :
              profile(resp'.sess, un, em, extra, pw)
              => LET u == resp'.user
                     authenticated == check_password_hash(users[u].password, pw)
                     collides == \E j \in DOMAIN users \ {u} :
                                    users[j].username = un \/ users[j].email = em
                     valid == EditUserFormValid(un, em, extra.image_url,
                                                extra.header_image_url, pw)
                 IN IF valid /\ authenticated /\ ~collides
                    THEN /\ DOMAIN users' = DOMAIN users
                         /\ Submitted(users'[u], un, em, extra)
                         /\ users'[u].password = users[u].password
                         /\ \A j \in DOMAIN users \ {u} : users'[j] = users[j]
                    ELSE users' = users]_vars

\* A logged-in user has just had all six fields of the profile rewritten.
C13_Witness ==
    /\ resp.op = "profile" /\ resp.status = 302 /\ resp.user \in DOMAIN users
    /\ users[resp.user].username = "two" /\ users[resp.user].email = "two@test.com"
    /\ users[resp.user].image_url # DEFAULT_IMAGE
    /\ users[resp.user].header_image_url # DEFAULT_HEADER
    /\ users[resp.user].location = "Hanoi" /\ users[resp.user].bio = "hello"
    /\ Cardinality(DOMAIN users) = 2

\* C14: the home feed of a logged-in user holds only messages written by the
\* user or by someone the user follows, newest first, and is the 100 newest of
\* them when more than 100 qualify (all of them otherwise).
C14_HomeFeed ==
    (resp.op = "homepage" /\ resp.user # None)
    => LET u == resp.user
           feed == resp.feed
           shown == {feed[i] : i \in 1..Len(feed)}
           qualifying == {m \in DOMAIN messages :
                             \/ messages[m].user_id = u
                             \/ is_following(follows, u, messages[m].user_id)}
       IN /\ shown \subseteq qualifying
          /\ \A i \in 1..Len(feed) : \A j \in (i + 1)..Len(feed) :
                 messages[feed[i]].timestamp > messages[feed[j]].timestamp
          /\ Len(feed) <= FEED_LIMIT
          /\ Len(feed) = IF Cardinality(qualifying) > FEED_LIMIT
                         THEN FEED_LIMIT ELSE Cardinality(qualifying)
          /\ \A m \in qualifying \ shown : \A i \in 1..Len(feed) :
                 messages[m].timestamp < messages[feed[i]].timestamp

\* A feed cut at 100 while the store also holds messages of someone the
\* reader does not follow.
C14_Witness ==
    /\ resp.op = "homepage"
    /\ resp.user # None
    /\ Len(resp.feed) = FEED_LIMIT
    /\ \E m \in DOMAIN messages :
          /\ messages[m].user_id = resp.user
          /\ \A i \in 1..Len(resp.feed) : resp.feed[i] # m
    /\ \E m \in DOMAIN messages :
          /\ messages[m].user_id # resp.user
          /\ ~is_following(follows, resp.user, messages[m].user_id)

\* C15: in every reachable state every message is owned by an existing user,
\* every Follows edge joins two existing users and every Likes edge joins an
\* existing user to an existing message; a deleted account leaves no message
\* and no edge behind.
C15_ReferentialIntegrity ==
    /\ \A m \in DOMAIN messages : messages[m].user_id \in DOMAIN users
    /\ \A e \in BagToSet(follows) : e[1] \in DOMAIN users /\ e[2] \in DOMAIN users
    /\ \A e \in BagToSet(likes) : e[1] \in DOMAIN users /\ e[2] \in DOMAIN messages

\* An account that had posted has just been deleted while another remains.
C15_Witness ==
    /\ resp.op = "delete_user"
    /\ resp.status = 302
    /\ resp.user \notin DOMAIN users
    /\ DOMAIN users # {}
    /\ nextMsgId > 1
    /\ messages = NoTable

\* C16: when like requests for one (user, message) pair overlap, the pair is
\* never stored twice, and once no request is in flight the edge exists exactly
\* when an odd number of the requests succeeded.
C16_ConcurrentToggleParity ==
    /\ \A e \in BagToSet(likes) : CopiesIn(e, likes) <= 1
    /\ (\A w \in Workers : inflight.reqs[w].pc = "idle")
       => \A u \in DOMAIN users, m \in DOMAIN messages :
             BagIn(<<u, m>>, likes) <=> CopiesIn(<<u, m>>, inflight.succeeded) % 2 = 1

\* C17: a reader's home feed shows the messages of everyone the reader
\* follows; once an account is deleted its messages are in no feed and nobody
\* follows it any more.
C17_FeedAfterAccountDeletion ==
    [][/\ (Ran("homepage") /\ LoggedIn)
          => LET u2 == resp'.user
                 feed == resp'.feed
                 shown == {feed[i] : i \in 1..Len(feed)}
             IN /\ Cardinality(DOMAIN messages) <= FEED_LIMIT
                   => \A m \in DOMAIN messages :
                         is_following(follows, u2, messages[m].user_id) => m \in shown
                /\ \A m \in shown : /\ m \in DOMAIN messages
                                     /\ messages[m].user_id \in DOMAIN users
                /\ \A u1 \in 1..(nextUserId - 1) :
                      u1 \notin DOMAIN users => ~is_following(follows, u2, u1)
       /\ (Ran("delete_user") /\ LoggedIn)
          => LET u1 == resp'.user
             IN /\ u1 \notin DOMAIN users'
                /\ \A u2 \in UserIdInputs :
                      u2 \in DOMAIN users'
                      => /\ ~is_following(follows', u2, u1)
                         /\ \A m \in DOMAIN messages :
                               messages[m].user_id = u1
                               => \A i \in 1..Len(home_messages(u2)') :
                                     home_messages(u2)'[i] # m]_vars

\* The surviving account reads its home page after the only account that
\* ever posted has been deleted.
C17_Witness ==
    /\ resp.op = "homepage"
    /\ resp.user = 2
    /\ DOMAIN users = {2}
    /\ nextMsgId > 1
    /\ messages = NoTable
    /\ resp.feed = <<>>

\* C18: two like requests in a row by the same logged-in user for the same
\* message of someone else leave the whole likes table as the first request
\* found it.
C18_ToggleTwiceRestores ==
    [][(/\ resp.op = "add_like" /\ resp.status = 302 /\ resp.user # None
        /\ Ran("add_like") /\ resp'.user = resp.user /\ resp'.arg = resp.arg)
       => /\ resp'.status = 302
          /\ likes' = resp.likes_before]_vars

\* The second of two requests has put back a like that the first one removed,
\* next to another like of the same user.
C18_Witness ==
    /\ resp.op = "add_like"
    /\ resp.status = 302
    /\ resp.user # None
    /\ ~BagIn(<<resp.user, resp.arg>>, resp.likes_before)
    /\ BagIn(<<resp.user, resp.arg>>, likes)
    /\ \E m \in DOMAIN messages : m # resp.arg /\ BagIn(<<resp.user, m>>, likes)

\* C19: a follow request with no current user (no marker in the session, or a
\* marker that names no user) answers with the unauthorized redirect to the
\* home page, raises nothing and leaves the follows table as it was.
C19_AnonymousFollowRefused ==
    [][(Ran("add_follow") /\ resp'.user = None)
       => /\ UnauthorizedRedirect(resp')
          /\ follows' = follows]_vars

\* The current-user marker of browser s in the given sessions, or None.
Marker(sessions, s) ==
    IF CURR_USER_KEY \in DOMAIN sessions[s] THEN sessions[s][CURR_USER_KEY] ELSE None

\* The marker is set only by a successful signup (to the id of the new user) or
\* a successful login (to the id of an existing user), in the browser of the
\* request, and is cleared by logout and by account deletion and by nothing else.
MarkerLifecycle ==
    /\ \A s \in Sessions :
          (Marker(session', s) # Marker(session, s) /\ Marker(session', s) # None)
          => /\ s = resp'.sess
             /\ resp'.status = 302
             /\ \/ /\ Ran("signup")
                   /\ Marker(session', s) \in DOMAIN users' \ DOMAIN users
                \/ /\ Ran("login")
                   /\ Marker(session', s) \in DOMAIN users
    /\ \A s \in Sessions :
          (Marker(session, s) # None /\ Marker(session', s) = None)
          => s = resp'.sess /\ (Ran("logout") \/ Ran("delete_user"))
    /\ ((Ran("logout") \/ Ran("delete_user")) /\ LoggedIn)
       => Marker(session', resp'.sess) = None

\* With no marker in a browser that has been logged in before (the one browser
\* of the run, once an account exists), every gated operation is refused: the
\* unauthorized redirect, and nothing stored or logged in.
RefusedWithoutMarker ==
    (/\ Marker(session, resp'.sess) = None
     /\ nextUserId > 1
     /\ resp'.op \in {"messages_add", "messages_destroy", "add_follow",
                      "stop_following", "add_like", "profile", "delete_user"})
    => /\ UnauthorizedRedirect(resp')
       /\ UNCHANGED <<users, messages, follows, likes, session>>

\* C20: the current-user marker of a session is set only by a successful
\* signup or login, to the id of that user, and cleared by logout and account
\* deletion; while it is cleared, create and delete message, follow, unfollow,
\* toggle like, profile edit and delete account are refused in that session.
C20_MarkerLifecycle ==
    [][MarkerLifecycle /\ RefusedWithoutMarker]_vars

\* C21: follow, unfollow, like toggle and create message by a logged-in user x
\* change only what x is the source of: follows edges of another follower,
\* likes edges of another user and the messages already stored stay as they
\* were, a new message is owned by x, and each operation leaves the tables of
\* the other operations alone.
C21_OnlyOwnRelationships ==
    [][(/\ resp'.op \in {"add_follow", "stop_following", "add_like", "messages_add"}
        /\ LoggedIn)
       => LET x == resp'.user
          IN /\ \A e \in BagToSet(follows) \cup BagToSet(follows') :
                   e[1] # x => CopiesIn(e, follows') = CopiesIn(e, follows)
             /\ \A e \in BagToSet(likes) \cup BagToSet(likes') :
                   e[1] # x => CopiesIn(e, likes') = CopiesIn(e, likes)
             /\ \A m \in DOMAIN messages :
                   m \in DOMAIN messages' /\ messages'[m] = messages[m]
             /\ \A m \in DOMAIN messages' \ DOMAIN messages :
                   messages'[m].user_id = x
             /\ (Ran("add_follow") \/ Ran("stop_following"))
                => likes' = likes /\ messages' = messages
             /\ Ran("add_like") => follows' = follows /\ messages' = messages
             /\ Ran("messages_add") => follows' = follows /\ likes' = likes
             /\ users' = users]_vars

\* x has just stopped following someone who still follows x, likes a message
\* of x and has a message of their own.
C21_Witness ==
    /\ resp.op = "stop_following"
    /\ resp.status = 302
    /\ resp.user # None
    /\ ~is_following(follows, resp.user, resp.arg)
    /\ is_following(follows, resp.arg, resp.user)
    /\ \E m \in DOMAIN messages :
          messages[m].user_id = resp.user /\ BagIn(<<resp.arg, m>>, likes)
    /\ \E m \in DOMAIN messages : messages[m].user_id = resp.arg

====
